---- MODULE Spec2Model ----
(***************************************************************************)
(* NLtoSQL-AI: the SQL safety validator (services/sql_validator.py), the   *)
(* inline safety check of backend/main.py, the provider fallback manager   *)
(* (services/llm_providers.py, backend/main.py) and the request handlers   *)
(* that validate and execute generated SQL (backend/1main.py,              *)
(* backend/main.py, services/database_manager.py), uploads and deletion   *)
(* of sessions, and the first version of the service (src/main.py).       *)
(*                                                                         *)
(* A SQL string is a sequence of lexemes ("words").  Text(s) is the        *)
(* character string the Python code sees; the string methods the code      *)
(* calls (upper, in, startswith, strip) are computed on the characters.    *)
(***************************************************************************)
EXTENDS Integers, Sequences, FiniteSets, TLC

----------------------------------------------------------------------------
(* Bounds *)

\* longest SQL string, in lexemes
MaxWords == 3

----------------------------------------------------------------------------
(* Characters and Python string methods *)

LowerAlpha ==
  <<"a","b","c","d","e","f","g","h","i","j","k","l","m",
    "n","o","p","q","r","s","t","u","v","w","x","y","z">>

UpperAlpha ==
  <<"A","B","C","D","E","F","G","H","I","J","K","L","M",
    "N","O","P","Q","R","S","T","U","V","W","X","Y","Z">>

WhitespaceChars == {" ", "\n", "\t"}

\* str.upper() on one character
UpperChar(c) ==
  IF \E i \in 1..26 : LowerAlpha[i] = c
  THEN UpperAlpha[CHOOSE i \in 1..26 : LowerAlpha[i] = c]
  ELSE c

\* str.upper()
upper(txt) == [i \in 1..Len(txt) |-> UpperChar(txt[i])]

\* pat in txt
Contains(pat, txt) ==
  \E i \in 0..(Len(txt) - Len(pat)) : SubSeq(txt, i + 1, i + Len(pat)) = pat

\* txt.startswith(pat)
startswith(txt, pat) ==
  /\ Len(txt) >= Len(pat)
  /\ SubSeq(txt, 1, Len(pat)) = pat

\* txt.strip()
strip(txt) ==
  LET keep == {i \in 1..Len(txt) : txt[i] \notin WhitespaceChars}
  IN IF keep = {} THEN <<>>
     ELSE LET lo == CHOOSE i \in keep : \A j \in keep : i <= j
              hi == CHOOSE i \in keep : \A j \in keep : i >= j
          IN SubSeq(txt, lo, hi)

----------------------------------------------------------------------------
(* Lexemes *)

\* the lexemes SQL strings are built from
Words ==
  {"SELECT * FROM", "select * from", "drop table", "data",
   " ", ";", "/*select*/", "'a'"}

\* the characters of a lexeme
Chars(w) ==
  CASE w = "SELECT * FROM" -> <<"S","E","L","E","C","T"," ","*"," ","F","R","O","M">>
    [] w = "select * from" -> <<"s","e","l","e","c","t"," ","*"," ","f","r","o","m">>
    [] w = "SELECT *\nFROM" -> <<"S","E","L","E","C","T"," ","*","\n","F","R","O","M">>
    [] w = "SELECT name, name FROM" ->
         <<"S","E","L","E","C","T"," ","n","a","m","e",","," ","n","a","m","e",
           " ","F","R","O","M">>
    [] w = "SELECT name,\n       name\nFROM" ->
         <<"S","E","L","E","C","T"," ","n","a","m","e",",","\n",
           " "," "," "," "," "," "," ","n","a","m","e","\n","F","R","O","M">>
    [] w = "drop table"    -> <<"d","r","o","p"," ","t","a","b","l","e">>
    [] w = "DROP TABLE"    -> <<"D","R","O","P"," ","T","A","B","L","E">>
    [] w = "data"          -> <<"d","a","t","a">>
    [] w = " "             -> <<" ">>
    [] w = "\n\n"          -> <<"\n","\n">>
    [] w = ";"             -> <<";">>
    [] w = "/*select*/"    -> <<"/","*","s","e","l","e","c","t","*","/">>
    [] w = "'a'"           -> <<"'","a","'">>
    [] w = "'\\ud800'"      -> <<"'","\\ud800","'">>

\* lexical class of a lexeme: keyword phrase, identifier, whitespace,
\* statement separator, comment, string literal
WordClass(w) ==
  CASE w \in {"SELECT * FROM", "select * from", "SELECT *\nFROM"} -> "kw"
    [] w \in {"SELECT name, name FROM", "SELECT name,\n       name\nFROM"} -> "kw"
    [] w \in {"drop table", "DROP TABLE"} -> "kw"
    [] w = "data" -> "id"
    [] w \in {" ", "\n\n"} -> "ws"
    [] w = ";" -> "semi"
    [] w = "/*select*/" -> "comment"
    [] w \in {"'a'", "'\\ud800'"} -> "lit"

\* the statement kind a keyword phrase starts, case folded
Keyword(w) ==
  CASE w \in {"SELECT * FROM", "select * from", "SELECT *\nFROM"} -> "SELECT"
    [] w \in {"SELECT name, name FROM", "SELECT name,\n       name\nFROM"} ->
         "SELECT name, name"
    [] w \in {"drop table", "DROP TABLE"} -> "DROP"
    [] OTHER -> "none"

RECURSIVE Text(_)
\* the character string of a sequence of lexemes
Text(s) == IF s = <<>> THEN <<>> ELSE Chars(Head(s)) \o Text(Tail(s))

\* two adjacent lexemes stay two lexemes when written next to each other
Separated(a, b) ==
  /\ ~(WordClass(a) \in {"kw", "id"} /\ WordClass(b) \in {"kw", "id"})
  /\ ~(WordClass(a) = "lit" /\ WordClass(b) = "lit")

WellFormed(s) == \A i \in 1..(Len(s) - 1) : Separated(s[i], s[i + 1])

SeqsUpTo(n) == UNION {[1..k -> Words] : k \in 0..n}

\* a string literal holding a lone surrogate, as json.loads builds from the
\* escape \ud800: a str that has no UTF-8 encoding
Unencodable == "'\\ud800'"

\* the SQL strings of the model
Inputs == {s \in SeqsUpTo(MaxWords) : WellFormed(s)}

----------------------------------------------------------------------------
(* sqlparse, as SQLValidator.validate_sql calls it *)

IsWs(w) == WordClass(w) = "ws"

RECURSIVE SplitStatements(_)
\* sqlparse splits the text after every ";"; the empty text has no statement
SplitStatements(s) ==
  IF s = <<>> THEN <<>>
  ELSE LET semis == {i \in 1..Len(s) : s[i] = ";"}
       IN IF semis = {} THEN <<s>>
          ELSE LET i == CHOOSE k \in semis : \A j \in semis : k <= j
               IN <<SubSeq(s, 1, i)>> \o SplitStatements(SubSeq(s, i + 1, Len(s)))

\* sqlparse.parse(sql_query): non-validating, one entry per statement
sqlparse_parse(s) == SplitStatements(s)

\* keyword_case='upper' and reindent=True on one lexeme
FormatWord(w) ==
  CASE Keyword(w) = "SELECT" -> "SELECT *\nFROM"
    [] Keyword(w) = "SELECT name, name" -> "SELECT name,\n       name\nFROM"
    [] Keyword(w) = "DROP" -> "DROP TABLE"
    [] IsWs(w) -> " "
    [] OTHER -> w

\* leading and trailing whitespace lexemes removed
StripWs(s) ==
  LET keep == {i \in 1..Len(s) : ~IsWs(s[i])}
  IN IF keep = {} THEN <<>>
     ELSE LET lo == CHOOSE i \in keep : \A j \in keep : i <= j
              hi == CHOOSE i \in keep : \A j \in keep : i >= j
          IN SubSeq(s, lo, hi)

RECURSIVE CollapseWs(_)
\* a run of whitespace lexemes becomes one
CollapseWs(s) ==
  IF Len(s) <= 1 THEN s
  ELSE IF IsWs(s[1]) /\ IsWs(s[2]) THEN CollapseWs(Tail(s))
  ELSE <<Head(s)>> \o CollapseWs(Tail(s))

FormatStatement(st) == CollapseWs(StripWs([i \in 1..Len(st) |-> FormatWord(st[i])]))

RECURSIVE JoinStatements(_)
\* reindent puts a blank line between two statements
JoinStatements(sts) ==
  IF sts = <<>> THEN <<>>
  ELSE IF Len(sts) = 1 THEN FormatStatement(sts[1])
  ELSE FormatStatement(sts[1]) \o <<"\n\n">> \o JoinStatements(Tail(sts))

\* mutant: only the first statement is formatted
sqlparse_format_first(s) ==
  IF SplitStatements(s) = <<>> THEN <<>> ELSE FormatStatement(SplitStatements(s)[1])

\* sqlparse.format(sql_query, reindent=True, keyword_case='upper')
sqlparse_format(s) == JoinStatements(SplitStatements(s))

\* what a SQL parser reads: comments and whitespace dropped, keywords
\* case folded, everything else as written
Lexemes(s) ==
  LET sig == SelectSeq(s, LAMBDA w : WordClass(w) \notin {"ws", "comment"})
  IN [i \in 1..Len(sig) |->
        IF WordClass(sig[i]) = "kw" THEN Keyword(sig[i]) ELSE sig[i]]

----------------------------------------------------------------------------
(* SQLValidator *)

SELECT == <<"S","E","L","E","C","T">>

\* the characters of a denylisted keyword
KeywordChars(k) ==
  CASE k = "DROP"     -> <<"D","R","O","P">>
    [] k = "DELETE"   -> <<"D","E","L","E","T","E">>
    [] k = "UPDATE"   -> <<"U","P","D","A","T","E">>
    [] k = "INSERT"   -> <<"I","N","S","E","R","T">>
    [] k = "ALTER"    -> <<"A","L","T","E","R">>
    [] k = "CREATE"   -> <<"C","R","E","A","T","E">>
    [] k = "TRUNCATE" -> <<"T","R","U","N","C","A","T","E">>
    [] k = "REPLACE"  -> <<"R","E","P","L","A","C","E">>
    [] k = "ATTACH"   -> <<"A","T","T","A","C","H">>
    [] k = "DETACH"   -> <<"D","E","T","A","C","H">>
    [] k = "PRAGMA"   -> <<"P","R","A","G","M","A">>
    [] k = "SELECT"   -> SELECT

\* SQLValidator.dangerous_keywords
dangerous_keywords ==
  <<"DROP", "DELETE", "UPDATE", "INSERT", "ALTER", "CREATE",
    "TRUNCATE", "REPLACE", "ATTACH", "DETACH", "PRAGMA">>

NoError == <<>>

Invalid(err) == [valid |-> FALSE, error |-> err, formatted |-> <<>>]

Valid(fmt) == [valid |-> TRUE, error |-> NoError, formatted |-> fmt]

\* mutant: a denylisted keyword blocks the query whatever it starts with
BlockingKeywords_strict(sql_query_upper) ==
  {i \in 1..Len(dangerous_keywords) :
     Contains(KeywordChars(dangerous_keywords[i]), sql_query_upper)}

\* step 1 of validate_sql: the denylisted keywords that block the query,
\* as positions in dangerous_keywords
BlockingKeywords(sql_query_upper) ==
  {i \in 1..Len(dangerous_keywords) :
     /\ Contains(KeywordChars(dangerous_keywords[i]), sql_query_upper)
     /\ dangerous_keywords[i] # "SELECT"
     /\ ~startswith(sql_query_upper, SELECT)}

\* mutant: the prefix test is made on one statement only
IsSelectQuery_single(sql_query_upper) ==
  /\ startswith(strip(sql_query_upper), SELECT)
  /\ ~Contains(<<";">>, sql_query_upper)

\* step 2 of validate_sql: the query is primarily a SELECT
IsSelectQuery(sql_query_upper) == startswith(strip(sql_query_upper), SELECT)

\* SQLValidator.validate_sql
validate_sql(sql_query) ==
  LET sql_query_upper == upper(Text(sql_query))
      blocking == BlockingKeywords(sql_query_upper)
  IN IF blocking # {}
     THEN LET first == CHOOSE i \in blocking : \A j \in blocking : i <= j
          IN Invalid(<<"Query contains potentially dangerous keyword: '",
                       dangerous_keywords[first],
                       "'. Only SELECT queries are allowed.">>)
     ELSE IF ~IsSelectQuery(sql_query_upper)
     THEN Invalid(<<"Only SELECT queries are allowed.">>)
     ELSE IF sqlparse_parse(sql_query) = <<>>
     THEN Invalid(<<"No SQL statements found.">>)
     ELSE Valid(sqlparse_format(sql_query))

----------------------------------------------------------------------------
(* The inline check of backend/main.py generate_sql *)

\* dangerous_keywords of backend/main.py
inline_dangerous_keywords ==
  <<"DROP", "DELETE", "UPDATE", "INSERT", "ALTER", "CREATE">>

\* the loop over dangerous_keywords returns the error response
inline_rejected(sql) ==
  LET sql_upper == upper(Text(sql))
  IN \E i \in 1..Len(inline_dangerous_keywords) :
        /\ Contains(KeywordChars(inline_dangerous_keywords[i]), sql_upper)
        /\ ~Contains(SELECT, sql_upper)

\* the response of the inline check, in the shape of a validation result
inline_check(sql) ==
  IF inline_rejected(sql)
  THEN Invalid(<<"Query contains potentially dangerous operations. Only SELECT queries are allowed.">>)
  ELSE Valid(<<>>)

----------------------------------------------------------------------------
(* Provider fallback: LLMManager (services/llm_providers.py) and            *)
(* LLMProviders.generate_with_fallback (backend/main.py)                    *)

Range(f) == {f[i] : i \in DOMAIN f}

\* the names of the provider classes
ProviderNames == {"openai", "deepinfra", "anthropic"}

\* model_preference values a caller may send; "gemini" names no provider
Preferences == {"auto", "openai", "deepinfra", "anthropic", "gemini"}

\* mutant: the fallback order leaves anthropic out
fallback_order_without_anthropic == <<"openai", "deepinfra">>

\* LLMManager.fallback_order
fallback_order == <<"openai", "deepinfra", "anthropic">>

\* the order in which generate_with_fallback appends its providers
inline_order == <<"openai", "deepinfra">>

\* self.model of each provider class
ProviderModel(name) ==
  CASE name = "openai" -> "gpt-4"
    [] name = "deepinfra" -> "meta-llama/Meta-Llama-3-70B-Instruct"
    [] name = "anthropic" -> "claude-3-opus-20240229"

\* LLMManager.add_provider: self.providers[provider.name] = provider; the
\* dict keeps its keys in insertion order
add_provider(provs, name) ==
  IF name \in Range(provs) THEN provs ELSE Append(provs, name)

\* mutant: the other configured providers are tried after the preferred one
candidate_providers_then_fallback(provs, preference) ==
  IF preference # "auto" /\ preference \in Range(provs)
  THEN <<preference>> \o SelectSeq(fallback_order,
                                    LAMBDA n : n \in Range(provs) /\ n # preference)
  ELSE SelectSeq(fallback_order, LAMBDA n : n \in Range(provs))

\* mutant: auto mode walks the providers in the order they were registered
candidate_providers_as_registered(provs, preference) ==
  IF preference # "auto" /\ preference \in Range(provs)
  THEN <<preference>>
  ELSE provs

\* mutant: a preferred provider is a candidate whether it is registered or not
candidate_providers_unconfigured_preference(provs, preference) ==
  IF preference \in ProviderNames
  THEN <<preference>>
  ELSE SelectSeq(fallback_order, LAMBDA n : n \in Range(provs))

\* LLMManager.generate_sql, the candidate list
candidate_providers(provs, preference) ==
  IF preference # "auto" /\ preference \in Range(provs)
  THEN <<preference>>
  ELSE SelectSeq(fallback_order, LAMBDA n : n \in Range(provs))

\* mutant: a preference for openai or deepinfra without its key leaves no
\* provider to call
inline_providers_preference_only(keys, preference) ==
  IF preference \in {"openai", "deepinfra"}
  THEN SelectSeq(<<preference>>, LAMBDA n : n \in keys)
  ELSE SelectSeq(inline_order, LAMBDA n : n \in keys)

\* generate_with_fallback, the providers list
inline_providers(keys, preference) ==
  IF preference = "openai" /\ "openai" \in keys THEN <<"openai">>
  ELSE IF preference = "deepinfra" /\ "deepinfra" \in keys THEN <<"deepinfra">>
  ELSE SelectSeq(inline_order, LAMBDA n : n \in keys)

NoSql == <<>>

Failure(err) ==
  [success |-> FALSE, sql |-> NoSql, model |-> "none", provider |-> "none",
   error |-> err]

\* the result of a provider whose call succeeded: the provider classes of
\* llm_providers.py name themselves, call_openai and call_deepinfra do not
ProviderSuccess(fn, name, sql) ==
  [success |-> TRUE, sql |-> sql, model |-> ProviderModel(name),
   provider |-> IF fn = "LLMManager" THEN name ELSE "none",
   error |-> "none"]

NoProvidersError(fn) ==
  IF fn = "LLMManager"
  THEN "No LLM providers configured or available for the given preference."
  ELSE "No LLM providers configured"

AllFailedError(fn) ==
  IF fn = "LLMManager"
  THEN "All LLM providers failed to generate SQL."
  ELSE "All LLM providers failed"

\* what one provider call can do: return a successful result, return a
\* failed result, raise
OutcomeKinds == {"ok", "fail", "raise"}

NoResult == Failure("no result")

IdleCall ==
  [fn |-> "none", pc |-> "idle", preference |-> "auto", candidates |-> <<>>,
   called |-> <<>>, result |-> NoResult]

\* generate_sql up to its first await: the candidate list, the early
\* return when it is empty
LLMBegin(fn, cands, preference) ==
  IF cands = <<>>
  THEN [fn |-> fn, pc |-> "done", preference |-> preference,
        candidates |-> cands, called |-> <<>>,
        result |-> Failure(NoProvidersError(fn))]
  ELSE [fn |-> fn, pc |-> "await", preference |-> preference,
        candidates |-> cands, called |-> <<>>, result |-> NoResult]

\* mutant: after a failure the first candidate is called again
Awaited_first(call) == call.candidates[1]

\* the provider the call is suspended on
Awaited(call) == call.candidates[Len(call.called) + 1]

\* mutant: no except clause, the exception leaves generate_sql
OnException_propagates(call, called) ==
  [call EXCEPT !.called = called, !.pc = "raised"]

\* except Exception: continue
OnException(call, called) ==
  IF Len(called) < Len(call.candidates)
  THEN [call EXCEPT !.called = called]
  ELSE [call EXCEPT !.called = called, !.pc = "done",
                    !.result = Failure(AllFailedError(call.fn))]

\* mutant: after the last candidate the provider's own failed result is returned
LLMStep_returns_last_failure(call, kind, sql) ==
  LET name == Awaited(call)
      called == Append(call.called, [name |-> name, kind |-> kind])
  IN IF kind = "ok"
     THEN [call EXCEPT !.called = called, !.pc = "done",
                       !.result = ProviderSuccess(call.fn, name, sql)]
     ELSE IF Len(called) < Len(call.candidates)
     THEN [call EXCEPT !.called = called]
     ELSE [call EXCEPT !.called = called, !.pc = "done",
                       !.result = Failure("provider error")]

\* one turn of the loop over the candidates, from the return of the
\* awaited provider to the next await or to the return
LLMStep(call, kind, sql) ==
  LET name == Awaited(call)
      called == Append(call.called, [name |-> name, kind |-> kind])
  IN CASE kind = "ok" ->
            [call EXCEPT !.called = called, !.pc = "done",
                         !.result = ProviderSuccess(call.fn, name, sql)]
       [] kind = "fail" ->
            IF Len(called) < Len(call.candidates)
            THEN [call EXCEPT !.called = called]
            ELSE [call EXCEPT !.called = called, !.pc = "done",
                              !.result = Failure(AllFailedError(call.fn))]
       [] kind = "raise" -> OnException(call, called)

----------------------------------------------------------------------------
(* Bounds of the request model *)

\* sessions created over a run (each upload draws a fresh uuid)
MaxSessions == 1

SessionIds == 1..MaxSessions

----------------------------------------------------------------------------
(* The SQLite engine behind cursor.execute *)

\* the table an upload creates: df.to_sql("data", ...)
UploadedTables == {"data"}

DataColumns == <<"name", "age">>

DataRows == << <<"Alice", "30">>, <<"Bob", "25">> >>

RECURSIVE LexStatements(_)
\* the statements of a lexeme sequence: split at ";", empty pieces dropped
LexStatements(lex) ==
  IF lex = <<>> THEN <<>>
  ELSE LET semis == {i \in 1..Len(lex) : lex[i] = ";"}
       IN IF semis = {} THEN <<lex>>
          ELSE LET i == CHOOSE k \in semis : \A j \in semis : k <= j
                   rest == LexStatements(SubSeq(lex, i + 1, Len(lex)))
               IN IF i = 1 THEN rest ELSE <<SubSeq(lex, 1, i - 1)>> \o rest

EngineRows(tables, cols, rows) ==
  [kind |-> "rows", tables |-> tables, columns |-> cols, rows |-> rows]

EngineError(tables, kind) ==
  [kind |-> kind, tables |-> tables, columns |-> <<>>, rows |-> <<>>]

\* mutant: a SELECT consumes the table it reads
sqlite_execute_consuming(tables, sql) ==
  LET stmts == LexStatements(Lexemes(sql))
  IN IF \E i \in 1..Len(sql) : sql[i] = Unencodable
     THEN EngineError(tables, "encode")
     ELSE IF stmts = <<>> THEN EngineRows(tables, <<>>, <<>>)
     ELSE IF Len(stmts) > 1 THEN EngineError(tables, "multi")
     ELSE LET st == stmts[1]
          IN IF st \in {<<"SELECT", "data">>, <<"DROP", "data">>} /\ "data" \in tables
             THEN EngineRows(tables \ {"data"},
                             IF st[1] = "SELECT" THEN DataColumns ELSE <<>>,
                             IF st[1] = "SELECT" THEN DataRows ELSE <<>>)
             ELSE EngineError(tables, "error")

\* cursor.execute(sql) on a store holding `tables`; the cursor describes one
\* column per expression of the SELECT list, whatever the names: a statement that cannot
\* be encoded as UTF-8 never reaches the engine ("encode", a
\* UnicodeEncodeError), a SELECT reads, DROP TABLE is committed at once, more
\* than one statement is refused before anything runs ("multi"), everything
\* else is an sqlite3.Error ("error")
sqlite_execute(tables, sql) ==
  LET stmts == LexStatements(Lexemes(sql))
  IN IF \E i \in 1..Len(sql) : sql[i] = Unencodable
     THEN EngineError(tables, "encode")
     ELSE IF stmts = <<>> THEN EngineRows(tables, <<>>, <<>>)
     ELSE IF Len(stmts) > 1 THEN EngineError(tables, "multi")
     ELSE LET st == stmts[1]
          IN IF st = <<"SELECT", "data">> /\ "data" \in tables
             THEN EngineRows(tables, DataColumns, DataRows)
             ELSE IF st = <<"SELECT name, name", "data">> /\ "data" \in tables
             THEN EngineRows(tables, <<"name", "name">>,
                             [i \in 1..Len(DataRows) |->
                                <<DataRows[i][1], DataRows[i][1]>>])
             ELSE IF st = <<"DROP", "data">> /\ "data" \in tables
             THEN EngineRows(tables \ {"data"}, <<>>, <<>>)
             ELSE EngineError(tables, "error")

\* {columns[i]: value for i, value in enumerate(row)}
RowMapping(cols, row) ==
  [c \in Range(cols) |->
     row[CHOOSE i \in 1..Len(cols) : cols[i] = c /\ \A j \in 1..Len(cols) : cols[j] = c => j <= i]]

ResultMappings(cols, rows) == [i \in 1..Len(rows) |-> RowMapping(cols, rows[i])]

----------------------------------------------------------------------------
(* The statements providers and callers hand to the request handlers *)

Statements ==
  { <<"SELECT * FROM", " ", "data">>,
    <<"select * from", " ", "data">>,
    <<"SELECT * FROM", " ", "'a'">>,
    <<"SELECT name, name FROM", " ", "data">>,
    <<"drop table", " ", "data">>,
    <<"drop table", "/*select*/", "data">>,
    <<"SELECT * FROM", " ", "data", ";", "drop table", " ", "data">>,
    <<"SELECT * FROM", " ", Unencodable>>,
    <<"data">>,
    <<>> }

\* a caller of /execute-sql may also send text that is not stripped
CallerStatements == Statements \cup { <<" ", "SELECT * FROM", " ", "data">> }

----------------------------------------------------------------------------
(* clean_sql: from the content of a provider's answer to the SQL string *)

\* a content is a sequence of lexemes; "\n" ends a line, "<fence>sql" and "<fence>"
\* are the markdown fences (three backquotes), "SQL:" is a prefix, "--" and "#" start a comment line
IsBlank(t) == t \in {" ", "\n"}

RECURSIVE RemoveFences(_)
\* the two re.sub calls that remove a markdown fence and the line break
\* after it
RemoveFences(c) ==
  IF c = <<>> THEN <<>>
  ELSE IF Head(c) \in {"<fence>sql", "<fence>"}
  THEN IF Len(c) >= 2 /\ c[2] = "\n"
       THEN RemoveFences(SubSeq(c, 3, Len(c)))
       ELSE RemoveFences(Tail(c))
  ELSE <<Head(c)>> \o RemoveFences(Tail(c))

RECURSIVE DropLeadingBlanks(_)
DropLeadingBlanks(c) ==
  IF c # <<>> /\ IsBlank(Head(c)) THEN DropLeadingBlanks(Tail(c)) ELSE c

\* re.sub(r'^(SQL Query:|Query:|SQL:)\s*', '', ...): at the start of the text only
RemovePrefix(c) ==
  IF c # <<>> /\ Head(c) \in {"SQL Query:", "Query:", "SQL:"}
  THEN DropLeadingBlanks(Tail(c))
  ELSE c

\* str.strip() on a sequence of lexemes
StripBlanks(c) ==
  LET keep == {i \in 1..Len(c) : ~IsBlank(c[i])}
  IN IF keep = {} THEN <<>>
     ELSE LET lo == CHOOSE i \in keep : \A j \in keep : i <= j
              hi == CHOOSE i \in keep : \A j \in keep : i >= j
          IN SubSeq(c, lo, hi)

RECURSIVE SplitLines(_)
\* str.split('\n')
SplitLines(c) ==
  LET breaks == {i \in 1..Len(c) : c[i] = "\n"}
  IN IF breaks = {} THEN <<c>>
     ELSE LET i == CHOOSE k \in breaks : \A j \in breaks : k <= j
          IN <<SubSeq(c, 1, i - 1)>> \o SplitLines(SubSeq(c, i + 1, Len(c)))

\* if line and not line.startswith('--') and not line.startswith('#')
IsSqlLine(line) == line # <<>> /\ Head(line) \notin {"--", "#"}

RECURSIVE JoinLines(_)
\* ' '.join(sql_lines)
JoinLines(lines) ==
  IF lines = <<>> THEN <<>>
  ELSE IF Len(lines) = 1 THEN lines[1]
  ELSE lines[1] \o <<" ">> \o JoinLines(Tail(lines))

\* BaseLLMProvider.clean_sql and LLMProviders.clean_sql
clean_sql(sql_text) ==
  LET text == StripBlanks(RemovePrefix(RemoveFences(sql_text)))
      lines == SplitLines(text)
      stripped == [i \in 1..Len(lines) |-> StripBlanks(lines[i])]
      sql_lines == SelectSeq(stripped, IsSqlLine)
  IN StripBlanks(JoinLines(sql_lines))

\* contents a provider answers with (message.content, stripped)
LLMContents ==
  { <<"<fence>sql", "\n", "SELECT * FROM", " ", "data", "\n", "<fence>">>,
    <<"SQL:", " ", "SELECT * FROM", " ", "data">>,
    <<"SELECT * FROM", "\n", " ", "data">>,
    <<"--", " ", "data">>,
    <<"<fence>sql", "\n", "<fence>">>,
    <<>> }

\* what a provider call returns as SQL in the fallback model
LLMSqls == {clean_sql(c) : c \in LLMContents}

----------------------------------------------------------------------------
(* DatabaseManager.execute_query and the tail of the request handlers *)

NoExec == [done |-> FALSE, session_id |-> 0, sql |-> NoSql]

Exec(sid, sql) == [done |-> TRUE, session_id |-> sid, sql |-> sql]

NoValidation == [done |-> FALSE, sql |-> NoSql, valid |-> FALSE]

Validation(sql, valid) == [done |-> TRUE, sql |-> sql, valid |-> valid]

\* mutant: no finally clause, the connection is left as it is
finally_close_missing(result) == result

\* finally: conn.close(), on the return paths and on the raising ones
finally_close(result) == [result EXCEPT !.conn = "closed"]

\* DatabaseManager.execute_query(session_id, sql_query).  db_map, files and
\* tables are session_db_map and the disk before the call.  sqlite3.connect
\* creates the file when it is missing.  A refusal of several statements is
\* an sqlite3.Error on some Python versions and an sqlite3.Warning, which
\* the except clause does not catch, on others (multi_is_error); neither does
\* it catch the UnicodeEncodeError of a statement that cannot be encoded.
execute_query(session_id, sql_query, db_map, files, tables, multi_is_error) ==
  IF session_id \notin db_map
  THEN [raised |-> FALSE, success |-> FALSE, results |-> <<>>, row_count |-> 0,
        columns |-> <<>>,
        error |-> "No database found for session ID", executed |-> NoExec,
        conn |-> "none", files |-> files, tables |-> tables]
  ELSE LET before == IF session_id \in files THEN tables[session_id] ELSE {}
           eng == sqlite_execute(before, sql_query)
           results == ResultMappings(eng.columns, eng.rows)
           disk == [raised |-> FALSE, success |-> FALSE, results |-> <<>>,
                    row_count |-> 0, columns |-> <<>>, error |-> "none",
                    executed |-> Exec(session_id, sql_query),
                    conn |-> "open",
                    files |-> files \cup {session_id},
                    tables |-> [tables EXCEPT ![session_id] = eng.tables]]
       IN finally_close(
            CASE eng.kind = "rows" ->
                   [disk EXCEPT !.success = TRUE, !.results = results,
                                !.row_count = Len(results),
                                !.columns = eng.columns]
              [] eng.kind = "error" -> [disk EXCEPT !.error = "sqlite3.Error"]
              [] eng.kind = "multi" ->
                   IF multi_is_error
                   THEN [disk EXCEPT !.error = "sqlite3.Error"]
                   ELSE [disk EXCEPT !.raised = TRUE, !.error = "sqlite3.Warning"]
              [] eng.kind = "encode" ->
                   [disk EXCEPT !.raised = TRUE, !.error = "UnicodeEncodeError"])

Response(endpoint, sid, status, sql, formatted, error, results) ==
  [endpoint |-> endpoint, session_id |-> sid, status |-> status, sql |-> sql,
   formatted |-> formatted, error |-> error, results |-> results]

NoResponse == Response("none", 0, 0, NoSql, <<>>, "none", <<>>)

\* the llm_response a handler got from generate_sql / generate_with_fallback
NoGeneration == [done |-> FALSE, success |-> FALSE, sql |-> NoSql, error |-> "none"]

Generated(llm_response) ==
  [done |-> TRUE, success |-> llm_response.success, sql |-> llm_response.sql,
   error |-> llm_response.error]

\* what a call of execute_query gave its caller: the returned dict, or the
\* exception that left it (raised); columns are the names of
\* cursor.description the mappings were built from
NoQuery ==
  [called |-> FALSE, raised |-> FALSE, success |-> FALSE, results |-> <<>>,
   row_count |-> 0, columns |-> <<>>, error |-> "none"]

QueryResult(r) ==
  [called |-> TRUE, raised |-> r.raised, success |-> r.success,
   results |-> r.results, row_count |-> r.row_count, columns |-> r.columns,
   error |-> r.error]

\* what a handler step leaves behind; conn is the connection it opened to
\* run a statement: "none", "open" or "closed"
Outcome(resp, val, exec, files, tables) ==
  [response |-> resp, validated |-> val, executed |-> exec,
   files |-> files, tables |-> tables,
   generated |-> NoGeneration, query |-> NoQuery, conn |-> "none"]

WithGenerated(out, llm_response) ==
  [out EXCEPT !.generated = Generated(llm_response)]

WithQuery(out, r) == [out EXCEPT !.query = QueryResult(r), !.conn = r.conn]

\* mutant: the verdict of validate_sql is not looked at
FinishGenerate_unchecked(endpoint, sid, llm_response, db_map, files, tables, multi_is_error) ==
  IF ~llm_response.success
  THEN WithGenerated(
         Outcome(Response(endpoint, sid, 200, NoSql, <<>>, llm_response.error, <<>>),
                 NoValidation, NoExec, files, tables),
         llm_response)
  ELSE LET sql == llm_response.sql
           validation_result == validate_sql(sql)
           execution_result ==
             execute_query(sid, sql, db_map, files, tables, multi_is_error)
       IN WithQuery(WithGenerated(
            Outcome(Response(endpoint, sid, 200, sql, validation_result.formatted,
                             execution_result.error, execution_result.results),
                    Validation(sql, validation_result.valid),
                    execution_result.executed,
                    execution_result.files, execution_result.tables),
            llm_response), execution_result)

\* mutant: the success flag of llm_response is not looked at
FinishGenerate_ignores_failure(endpoint, sid, llm_response, db_map, files, tables, multi_is_error) ==
  LET sql == llm_response.sql
      validation_result == validate_sql(sql)
  IN IF ~validation_result.valid
     THEN WithGenerated(
            Outcome(Response(endpoint, sid, 200, sql, <<>>,
                             "SQL validation failed", <<>>),
                    Validation(sql, FALSE), NoExec, files, tables),
            llm_response)
     ELSE LET execution_result ==
                execute_query(sid, sql, db_map, files, tables, multi_is_error)
          IN WithQuery(WithGenerated(
               Outcome(Response(endpoint, sid, 200, sql, validation_result.formatted,
                                execution_result.error, execution_result.results),
                       Validation(sql, TRUE), execution_result.executed,
                       execution_result.files, execution_result.tables),
               llm_response), execution_result)

\* mutant: the statement is executed before it is validated, and a failed
\* validation is reported next to the rows
FinishGenerate_executes_first(endpoint, sid, llm_response, db_map, files, tables, multi_is_error) ==
  IF ~llm_response.success
  THEN WithGenerated(
         Outcome(Response(endpoint, sid, 200, NoSql, <<>>, llm_response.error, <<>>),
                 NoValidation, NoExec, files, tables),
         llm_response)
  ELSE LET sql == llm_response.sql
           execution_result ==
             execute_query(sid, sql, db_map, files, tables, multi_is_error)
           validation_result == validate_sql(sql)
       IN WithQuery(WithGenerated(
            Outcome(Response(endpoint, sid, 200, sql, validation_result.formatted,
                             IF validation_result.valid
                             THEN execution_result.error
                             ELSE "SQL validation failed",
                             execution_result.results),
                    Validation(sql, validation_result.valid),
                    execution_result.executed,
                    execution_result.files, execution_result.tables),
            llm_response), execution_result)

\* backend/1main.py generate_sql and predict, from the return of
\* llm_manager.generate_sql to the response
FinishGenerate(endpoint, sid, llm_response, db_map, files, tables, multi_is_error) ==
  IF ~llm_response.success
  THEN WithGenerated(
         Outcome(Response(endpoint, sid, 200, NoSql, <<>>, llm_response.error, <<>>),
                 NoValidation, NoExec, files, tables),
         llm_response)
  ELSE LET sql == llm_response.sql
           validation_result == validate_sql(sql)
       IN IF ~validation_result.valid
          THEN WithGenerated(
                 Outcome(Response(endpoint, sid, 200, sql, <<>>,
                                  "SQL validation failed", <<>>),
                         Validation(sql, FALSE), NoExec, files, tables),
                 llm_response)
          ELSE LET execution_result ==
                     execute_query(sid, sql, db_map, files, tables, multi_is_error)
                   formatted_sql == validation_result.formatted
                   resp ==
                     IF execution_result.raised
                     THEN Response(endpoint, sid, 200, NoSql, <<>>,
                                   "Unexpected error", <<>>)
                     ELSE IF ~execution_result.success
                     THEN Response(endpoint, sid, 200, sql, formatted_sql,
                                   execution_result.error, <<>>)
                     ELSE Response(endpoint, sid, 200, sql, formatted_sql,
                                   "none", execution_result.results)
               IN WithQuery(WithGenerated(
                    Outcome(resp, Validation(sql, TRUE), execution_result.executed,
                            execution_result.files, execution_result.tables),
                    llm_response), execution_result)

\* mutant: the statement handed to execute_query is the formatted one
FinishExecuteSql_executes_formatted(sid, sql_query, db_map, files, tables, multi_is_error) ==
  LET validation_result == validate_sql(sql_query)
  IN IF ~validation_result.valid
     THEN Outcome(Response("execute-sql", sid, 400, NoSql, <<>>,
                           "SQL validation failed", <<>>),
                  Validation(sql_query, FALSE), NoExec, files, tables)
     ELSE LET execution_result ==
                execute_query(sid, validation_result.formatted, db_map, files,
                              tables, multi_is_error)
              resp ==
                IF execution_result.raised
                THEN Response("execute-sql", sid, 500, NoSql, <<>>,
                              execution_result.error, <<>>)
                ELSE IF ~execution_result.success
                THEN Response("execute-sql", sid, 400, NoSql, <<>>,
                              execution_result.error, <<>>)
                ELSE Response("execute-sql", sid, 200, sql_query,
                              validation_result.formatted, "none",
                              execution_result.results)
          IN WithQuery(
               Outcome(resp, Validation(sql_query, TRUE), execution_result.executed,
                       execution_result.files, execution_result.tables),
               execution_result)

\* backend/1main.py execute_sql, after get_session
FinishExecuteSql(sid, sql_query, db_map, files, tables, multi_is_error) ==
  LET validation_result == validate_sql(sql_query)
  IN IF ~validation_result.valid
     THEN Outcome(Response("execute-sql", sid, 400, NoSql, <<>>,
                           "SQL validation failed", <<>>),
                  Validation(sql_query, FALSE), NoExec, files, tables)
     ELSE LET execution_result ==
                execute_query(sid, sql_query, db_map, files, tables, multi_is_error)
              resp ==
                IF execution_result.raised
                THEN Response("execute-sql", sid, 500, NoSql, <<>>,
                              execution_result.error, <<>>)
                ELSE IF ~execution_result.success
                THEN Response("execute-sql", sid, 400, NoSql, <<>>,
                              execution_result.error, <<>>)
                ELSE Response("execute-sql", sid, 200, sql_query,
                              validation_result.formatted, "none",
                              execution_result.results)
          IN WithQuery(
               Outcome(resp, Validation(sql_query, TRUE), execution_result.executed,
                       execution_result.files, execution_result.tables),
               execution_result)

\* backend/main.py generate_sql, from the return of generate_with_fallback
\* to the response: connect, the inline keyword check, cursor.execute
InlineFinishGenerate(sid, api_response, files, tables, multi_is_error) ==
  IF ~api_response.success
  THEN WithGenerated(
         Outcome(Response("generate-sql", sid, 200, NoSql, <<>>,
                          api_response.error, <<>>),
                 NoValidation, NoExec, files, tables),
         api_response)
  ELSE LET sql == api_response.sql
           connected == files \cup {sid}
           before == IF sid \in files THEN tables[sid] ELSE {}
           opened(out) == [WithGenerated(out, api_response) EXCEPT !.conn = "open"]
       IN IF inline_rejected(sql)
          THEN finally_close(opened(
                 Outcome(Response("generate-sql", sid, 200, sql, <<>>,
                                  "Query contains potentially dangerous operations",
                                  <<>>),
                         Validation(sql, FALSE), NoExec, connected, tables)))
          ELSE LET eng == sqlite_execute(before, sql)
                   after == [tables EXCEPT ![sid] = eng.tables]
                   resp ==
                     CASE eng.kind = "rows" ->
                            Response("generate-sql", sid, 200, sql, <<>>, "none",
                                     ResultMappings(eng.columns, eng.rows))
                       [] eng.kind = "error" \/ (eng.kind = "multi" /\ multi_is_error) ->
                            Response("generate-sql", sid, 200, sql, <<>>,
                                     "SQL execution error", <<>>)
                       [] OTHER ->
                            Response("generate-sql", sid, 200, NoSql, <<>>,
                                     "Unexpected error", <<>>)
               IN finally_close(opened(
                    Outcome(resp, Validation(sql, TRUE), Exec(sid, sql),
                            connected, after)))

----------------------------------------------------------------------------
(* The provider clients of services/llm_providers.py *)

HttpStatuses == {200, 201, 401, 500}

\* what response.json() and the subscripts find in the body of an answer
\* that carries no text payload: a content type that is not JSON, text that
\* does not parse as JSON, JSON without the expected keys, JSON whose text
\* is null
MalformedBodies == {"wrong content type", "invalid json", "missing key", "null text"}

Payload(content) == [kind |-> "payload", content |-> content]

Malformed(what) == [kind |-> what, content |-> <<>>]

Bodies == {Payload(c) : c \in LLMContents} \cup {Malformed(m) : m \in MalformedBodies}

\* how session.post ends: an answer with a status and a body, an
\* aiohttp.ClientError (no connection), the session's total timeout
HttpOutcomes ==
  {[kind |-> "response", status |-> st, body |-> b] : st \in HttpStatuses, b \in Bodies}
    \cup {[kind |-> k, status |-> 0, body |-> Malformed("invalid json")] :
            k \in {"client_error", "timeout"}}

\* the label a provider puts in front of its error texts
ProviderLabel(name) ==
  CASE name = "openai" -> "OpenAI"
    [] name = "deepinfra" -> "DeepInfra"
    [] name = "anthropic" -> "Anthropic"

\* the text of a response body, as response.text() returns it
BodyText(body) == IF body.kind = "payload" THEN body.content ELSE <<body.kind>>

Returned(result) == [exception |-> "none", result |-> result]

\* the subclasses of aiohttp.ClientError among the exceptions met here
ClientErrors == {"aiohttp.ClientError", "aiohttp.ContentTypeError"}

\* str(e): a timeout carries no message
ExceptionText(exception) ==
  IF exception = "TimeoutError" THEN <<>> ELSE <<exception>>

Raised(exception) == [exception |-> exception, result |-> NoResult]

\* the try block of generate_sql: session.post, the status test,
\* response.json(), the subscripts, clean_sql
provider_try(name, http) ==
  CASE http.kind = "client_error" -> Raised("aiohttp.ClientError")
    [] http.kind = "timeout" -> Raised("TimeoutError")
    [] http.kind = "response" ->
         IF http.status = 200
         THEN CASE http.body.kind = "payload" ->
                     Returned(ProviderSuccess("LLMManager", name,
                                              clean_sql(http.body.content)))
                [] http.body.kind = "wrong content type" ->
                     Raised("aiohttp.ContentTypeError")
                [] http.body.kind = "invalid json" -> Raised("json.JSONDecodeError")
                [] http.body.kind = "missing key" -> Raised("KeyError")
                [] http.body.kind = "null text" -> Raised("AttributeError")
         ELSE Returned(Failure(<<ProviderLabel(name), " API error: ">>
                                 \o BodyText(http.body)))

\* mutant: only aiohttp.ClientError is caught
provider_except_client_error_only(name, attempt) ==
  IF attempt.exception \in ClientErrors
  THEN Returned(Failure(<<ProviderLabel(name), " network error: ">>
                          \o ExceptionText(attempt.exception)))
  ELSE attempt

\* except aiohttp.ClientError ... except Exception ...
provider_except(name, attempt) ==
  CASE attempt.exception = "none" -> attempt
    [] attempt.exception \in ClientErrors ->
         Returned(Failure(<<ProviderLabel(name), " network error: ">>
                            \o ExceptionText(attempt.exception)))
    [] OTHER -> Returned(Failure(ExceptionText(attempt.exception)))

\* OpenAIProvider, DeepInfraProvider and AnthropicProvider .generate_sql
provider_generate_sql(name, has_key, http) ==
  IF ~has_key
  THEN Returned(Failure(<<ProviderLabel(name), " API key not configured">>))
  ELSE provider_except(name, provider_try(name, http))

NoProviderCall ==
  [pc |-> "idle", name |-> "none", has_key |-> FALSE,
   http |-> [kind |-> "none", status |-> 0, body |-> Malformed("invalid json")],
   outcome |-> Raised("none")]

----------------------------------------------------------------------------
(* Uploads and deletion *)

\* how the conversion of an uploaded file ends: it succeeds, the extension
\* is not a supported one, the file cannot be parsed, or to_sql fails after
\* sqlite3.connect has created the database file
UploadOutcomes == {"ok", "unsupported", "parse_fails", "write_fails"}

\* DatabaseManager.create_database_from_file for the fresh session id `id`:
\* on a failure the except clause removes sqlite_path and raises again, so
\* no database file is left (db_left)
create_database_from_file(outcome, id, db_map, files, tables) ==
  IF outcome = "ok"
  THEN [raised |-> FALSE, db_map |-> db_map \cup {id}, files |-> files \cup {id},
        tables |-> [tables EXCEPT ![id] = UploadedTables], db_left |-> FALSE]
  ELSE [raised |-> TRUE, db_map |-> db_map, files |-> files, tables |-> tables,
        db_left |-> FALSE]

\* backend/main.py SessionManager.create_session for the fresh session id
\* `id`: the copy of the upload is written first; on a failure nothing is
\* removed, neither that copy nor a database file that to_sql left half
\* written
create_session(outcome, id, db_map, files, tables) ==
  IF outcome = "ok"
  THEN [raised |-> FALSE, db_map |-> db_map \cup {id}, files |-> files \cup {id},
        tables |-> [tables EXCEPT ![id] = UploadedTables], db_left |-> FALSE]
  ELSE [raised |-> TRUE, db_map |-> db_map, files |-> files, tables |-> tables,
        db_left |-> (outcome = "write_fails")]

\* the files a failed upload leaves on disk: the copy of the upload, which
\* neither upload handler removes on its failure path, and the database file
Leftover(created) ==
  IF created.raised
  THEN {"upload"} \cup (IF created.db_left THEN {"db"} ELSE {})
  ELSE {}

\* DatabaseManager.delete_database
delete_database(session_id, db_map, files, tables) ==
  IF session_id \in db_map
  THEN [db_map |-> db_map \ {session_id}, files |-> files \ {session_id},
        tables |-> [tables EXCEPT ![session_id] = {}]]
  ELSE [db_map |-> db_map, files |-> files, tables |-> tables]

----------------------------------------------------------------------------
(* src/main.py, the first version of the service *)

\* generate_sql_from_deepinfra: requests.post and raise_for_status raise on a
\* transport error or a non-2xx answer; on a 2xx answer re.findall raises a
\* NameError, the module imports recd and never re.  It returns on no path.
generate_sql_from_deepinfra(http_ok) ==
  [raised |-> TRUE, sql |-> NoSql,
   error |-> IF http_ok THEN "NameError" ELSE "HTTPError"]

\* generate_sql of src/main.py: connect, execute and close follow the call
\* of generate_sql_from_deepinfra inside one try; close is not in a finally
legacy_generate_sql(http_ok, files, tables) ==
  LET g == generate_sql_from_deepinfra(http_ok)
      failed(err, c) ==
        [Outcome(Response("legacy", 0, 200, NoSql, <<>>, err, <<>>),
                 NoValidation, NoExec, files, tables) EXCEPT !.conn = c]
  IN IF g.raised THEN failed(g.error, "none")
     ELSE LET eng == sqlite_execute(UploadedTables, g.sql)
          IN IF eng.kind # "rows" THEN failed("sqlite3.Error", "open")
             ELSE [Outcome(Response("legacy", 0, 200, g.sql, <<>>, "none", eng.rows),
                           NoValidation, Exec(0, g.sql), files, tables)
                      EXCEPT !.conn = "closed"]

----------------------------------------------------------------------------
(* State *)

VARIABLES
  sql_query,          \* the argument of validate_sql / the inline check
  validation_result,  \* what the check returned
  vpc,                \* "input", "validated" (validate_sql), "inline"
  providers,          \* LLMManager.providers, its keys in insertion order
  api_keys,           \* the providers whose API key is in the environment
  llm_call,           \* the generate_sql / generate_with_fallback call: its locals
                      \* while it runs, and in SpecLLM its returned result
  sessions,           \* backend/1main.py SessionManager.sessions (its keys)
  session_db_map,     \* DatabaseManager.session_db_map (its keys)
  user_db_map,        \* backend/main.py SessionManager.user_db_map (its keys)
  db_files,           \* session ids whose temp/<id>.db exists
  db_tables,          \* the tables in each session's database file
  next_id,            \* the next fresh session id
  request,            \* the generate-sql / predict request suspended on a provider
  response,           \* the response of the latest request
  validated,          \* the statement the latest step validated, with the verdict
  executed,           \* the statement the latest step passed to cursor.execute
  multi_is_error,     \* the Python version raises sqlite3.Error for several statements
  generated,          \* the llm_response the latest step got from the fallback
  query_result,       \* what execute_query gave its caller in the latest step
  conn,               \* the connection the latest step opened to run a statement
  leftover,           \* the files a failed upload left on disk
  provider_call       \* one call of a provider client's generate_sql: its
                      \* inputs, and what came back

vvars == <<sql_query, validation_result, vpc>>
lvars == <<providers, api_keys, llm_call>>
svars == <<sessions, session_db_map, user_db_map, db_files, db_tables, next_id>>
rvars == <<request, response, validated, executed, multi_is_error,
           generated, query_result, conn, leftover>>
pvars == <<provider_call>>
vars == <<vvars, lvars, svars, rvars, pvars>>

NoRequest == [state |-> "idle", endpoint |-> "none", session_id |-> 0]

\* backend/1main.py initialize_llm_providers
initialize_llm_providers(keys) ==
  LET p1 == IF "openai" \in keys THEN add_provider(<<>>, "openai") ELSE <<>>
      p2 == IF "deepinfra" \in keys THEN add_provider(p1, "deepinfra") ELSE p1
  IN IF "anthropic" \in keys THEN add_provider(p2, "anthropic") ELSE p2

ValidatorIdle ==
  /\ sql_query = NoSql
  /\ validation_result = Invalid(NoError)
  /\ vpc = "input"

ManagerIdle ==
  /\ providers = <<>>
  /\ api_keys = {}
  /\ llm_call = IdleCall

StoreEmpty ==
  /\ sessions = {}
  /\ session_db_map = {}
  /\ user_db_map = {}
  /\ db_files = {}
  /\ db_tables = [i \in SessionIds |-> {}]
  /\ next_id = 1

ProviderIdle == provider_call = NoProviderCall

RequestIdle ==
  /\ request = NoRequest
  /\ response = NoResponse
  /\ validated = NoValidation
  /\ executed = NoExec
  /\ generated = NoGeneration
  /\ query_result = NoQuery
  /\ conn = "none"
  /\ leftover = {}

----------------------------------------------------------------------------
(* SpecValidator: validate_sql and the inline check on every input *)

InitValidator ==
  /\ sql_query \in Inputs
  /\ validation_result = Invalid(NoError)
  /\ vpc = "input"
  /\ multi_is_error = TRUE
  /\ ManagerIdle /\ StoreEmpty /\ RequestIdle /\ ProviderIdle

\* sql_validator.validate_sql(sql_query)
ValidateSql ==
  /\ vpc = "input"
  /\ validation_result' = validate_sql(sql_query)
  /\ vpc' = "validated"
  /\ UNCHANGED <<sql_query, lvars, svars, rvars, pvars>>

\* the dangerous_keywords loop of backend/main.py generate_sql
InlineCheck ==
  /\ vpc = "input"
  /\ validation_result' = inline_check(sql_query)
  /\ vpc' = "inline"
  /\ UNCHANGED <<sql_query, lvars, svars, rvars, pvars>>

NextValidator == ValidateSql \/ InlineCheck

SpecValidator == InitValidator /\ [][NextValidator]_vars

----------------------------------------------------------------------------
(* SpecLLM: the provider fallback on every configuration and preference *)

InitLLM ==
  /\ providers = <<>>
  /\ api_keys \in SUBSET ProviderNames
  /\ llm_call = IdleCall
  /\ multi_is_error = TRUE
  /\ ValidatorIdle /\ StoreEmpty /\ RequestIdle /\ ProviderIdle

\* llm_manager.add_provider(provider), before the first request
AddProvider(name) ==
  /\ llm_call.pc = "idle"
  /\ name \notin Range(providers)
  /\ providers' = add_provider(providers, name)
  /\ UNCHANGED <<api_keys, llm_call, vvars, pvars, svars, rvars>>

\* LLMManager.generate_sql(prompt, preference) up to its first await
ManagerGenerateSql(preference) ==
  /\ llm_call.pc # "await"
  /\ llm_call' = LLMBegin("LLMManager", candidate_providers(providers, preference),
                          preference)
  /\ UNCHANGED <<providers, api_keys, vvars, pvars, svars, rvars>>

\* LLMProviders.generate_with_fallback(prompt, preference) up to its first await
GenerateWithFallback(preference) ==
  /\ llm_call.pc # "await"
  /\ llm_call' = LLMBegin("LLMProviders", inline_providers(api_keys, preference),
                          preference)
  /\ UNCHANGED <<providers, api_keys, vvars, pvars, svars, rvars>>

\* the awaited provider call returns or raises
ProviderReturns(kind, sql) ==
  /\ llm_call.pc = "await"
  /\ llm_call' = LLMStep(llm_call, kind, sql)
  /\ UNCHANGED <<providers, api_keys, vvars, pvars, svars, rvars>>

NextLLM ==
  \/ \E name \in ProviderNames : AddProvider(name)
  \/ \E preference \in Preferences : ManagerGenerateSql(preference)
  \/ \E preference \in Preferences : GenerateWithFallback(preference)
  \/ \E kind \in OutcomeKinds : \E sql \in LLMSqls :
       ProviderReturns(kind, IF kind = "ok" THEN sql ELSE NoSql)

SpecLLM == InitLLM /\ [][NextLLM]_vars

\* every awaited provider call returns or raises: the event loop resumes the
\* coroutine suspended at `await provider.generate_sql(prompt)`
FairSpecLLM ==
  SpecLLM /\ WF_vars(\E kind \in OutcomeKinds : \E sql \in LLMSqls :
                       ProviderReturns(kind, IF kind = "ok" THEN sql ELSE NoSql))

----------------------------------------------------------------------------
(* Spec: the application of backend/1main.py *)

Init ==
  /\ api_keys \in SUBSET ProviderNames
  /\ multi_is_error \in BOOLEAN
  /\ providers = initialize_llm_providers(api_keys)
  /\ llm_call = IdleCall
  /\ ValidatorIdle /\ StoreEmpty /\ RequestIdle /\ ProviderIdle

\* DatabaseManager.get_schema_info: a ValueError for an unknown session;
\* sqlite3.connect creates the file when it is missing
get_schema_info(session_id, db_map, files, tables) ==
  IF session_id \notin db_map
  THEN [raised |-> TRUE, files |-> files, schema |-> {}]
  ELSE [raised |-> FALSE, files |-> files \cup {session_id},
        schema |-> IF session_id \in files THEN tables[session_id] ELSE {}]

\* POST /upload: the upload is saved as a temporary file,
\* create_database_from_file, create_session, the temporary file is removed
upload_file(outcome) ==
  /\ outcome = "ok" => next_id <= MaxSessions
  /\ LET created == create_database_from_file(outcome, next_id, session_db_map,
                                               db_files, db_tables)
     IN /\ session_db_map' = created.db_map
        /\ db_files' = created.files
        /\ db_tables' = created.tables
        /\ leftover' = Leftover(created)
        /\ IF created.raised
           THEN /\ response' = Response("upload", 0, 400, NoSql, <<>>,
                                        "upload failed", <<>>)
                /\ UNCHANGED <<sessions, next_id>>
           ELSE /\ response' = Response("upload", next_id, 200, NoSql, <<>>,
                                        "none", <<>>)
                /\ sessions' = sessions \cup {next_id}
                /\ next_id' = next_id + 1
  /\ validated' = NoValidation
  /\ executed' = NoExec
  /\ generated' = NoGeneration
  /\ query_result' = NoQuery
  /\ conn' = "none"
  /\ UNCHANGED <<user_db_map, request, multi_is_error, lvars, vvars, pvars>>

\* what a handler step leaves behind
Apply(out) ==
  /\ response' = out.response
  /\ validated' = out.validated
  /\ executed' = out.executed
  /\ db_files' = out.files
  /\ db_tables' = out.tables
  /\ generated' = out.generated
  /\ query_result' = out.query
  /\ conn' = out.conn
  /\ leftover' = {}

\* POST /generate-sql and POST /predict up to the first provider call
GenerateSql(endpoint, sid, preference) ==
  /\ request.state = "idle"
  /\ IF sid \notin sessions
     THEN /\ Apply(Outcome(Response(endpoint, sid, 404, NoSql, <<>>,
                                    "Session not found", <<>>),
                           NoValidation, NoExec, db_files, db_tables))
          /\ UNCHANGED <<request, llm_call>>
     ELSE LET schema_info == get_schema_info(sid, session_db_map, db_files, db_tables)
              call == LLMBegin("LLMManager",
                               candidate_providers(providers, preference), preference)
          IN IF schema_info.raised
             THEN /\ Apply(Outcome(Response(endpoint, sid, 200, NoSql, <<>>,
                                            "Unexpected error", <<>>),
                                   NoValidation, NoExec, db_files, db_tables))
                  /\ UNCHANGED <<request, llm_call>>
             ELSE /\ llm_call' = (IF call.pc = "done" THEN IdleCall ELSE call)
                  /\ IF call.pc = "done"
                     THEN /\ Apply(FinishGenerate(endpoint, sid, call.result,
                                                  session_db_map, schema_info.files,
                                                  db_tables, multi_is_error))
                          /\ UNCHANGED request
                     ELSE /\ Apply(Outcome(NoResponse, NoValidation, NoExec,
                                           schema_info.files, db_tables))
                          /\ request' = [state |-> "awaiting", endpoint |-> endpoint,
                                         session_id |-> sid]
  /\ UNCHANGED <<sessions, session_db_map, user_db_map, next_id, multi_is_error,
                 providers, api_keys, vvars, pvars>>

\* the awaited provider returns or raises; the handler runs on to its next
\* await or to its response
GenerateSqlResume(kind, sql) ==
  /\ request.state = "awaiting"
  /\ LET call == LLMStep(llm_call, kind, sql)
     IN /\ llm_call' = (IF call.pc = "done" THEN IdleCall ELSE call)
        /\ IF call.pc = "done"
           THEN /\ Apply(FinishGenerate(request.endpoint, request.session_id,
                                        call.result, session_db_map, db_files,
                                        db_tables, multi_is_error))
                /\ request' = NoRequest
           ELSE /\ Apply(Outcome(NoResponse, NoValidation, NoExec, db_files, db_tables))
                /\ UNCHANGED request
  /\ UNCHANGED <<sessions, session_db_map, user_db_map, next_id, multi_is_error,
                 providers, api_keys, vvars, pvars>>

\* POST /execute-sql/{session_id}
execute_sql(sid, sql) ==
  /\ IF sid \notin sessions
     THEN Apply(Outcome(Response("execute-sql", sid, 404, NoSql, <<>>,
                                 "Session not found", <<>>),
                        NoValidation, NoExec, db_files, db_tables))
     ELSE Apply(FinishExecuteSql(sid, sql, session_db_map, db_files, db_tables,
                                 multi_is_error))
  /\ UNCHANGED <<sessions, session_db_map, user_db_map, next_id, request,
                 multi_is_error, lvars, vvars, pvars>>

\* GET /schema/{session_id}: every exception, the 404 of get_session
\* included, is turned into a 400
get_schema(sid) ==
  /\ LET schema_info == get_schema_info(sid, session_db_map, db_files, db_tables)
     IN IF sid \notin sessions \/ schema_info.raised
        THEN Apply(Outcome(Response("schema", sid, 400, NoSql, <<>>,
                                    "Session not found", <<>>),
                           NoValidation, NoExec, db_files, db_tables))
        ELSE Apply(Outcome(Response("schema", sid, 200, NoSql, <<>>, "none", <<>>),
                           NoValidation, NoExec, schema_info.files, db_tables))
  /\ UNCHANGED <<sessions, session_db_map, user_db_map, next_id, request,
                 multi_is_error, lvars, vvars, pvars>>

\* mutant: the handler does not call get_session
delete_session_unchecked(sid) ==
  /\ Apply(Outcome(Response("delete", sid, 200, NoSql, <<>>, "none", <<>>),
                   NoValidation, NoExec, db_files \ {sid},
                   [db_tables EXCEPT ![sid] = {}]))
  /\ sessions' = sessions \ {sid}
  /\ UNCHANGED <<session_db_map, user_db_map, next_id, request, multi_is_error,
                 lvars, vvars, pvars>>

\* DELETE /session/{session_id}: removes the file and the entry of
\* session_manager.sessions
delete_session(sid) ==
  /\ IF sid \notin sessions
     THEN /\ Apply(Outcome(Response("delete", sid, 404, NoSql, <<>>,
                                    "Session not found", <<>>),
                           NoValidation, NoExec, db_files, db_tables))
          /\ UNCHANGED sessions
     ELSE /\ Apply(Outcome(Response("delete", sid, 200, NoSql, <<>>, "none", <<>>),
                           NoValidation, NoExec, db_files \ {sid},
                           [db_tables EXCEPT ![sid] = {}]))
          /\ sessions' = sessions \ {sid}
  /\ UNCHANGED <<session_db_map, user_db_map, next_id, request, multi_is_error,
                 lvars, vvars, pvars>>

Next ==
  \/ \E outcome \in UploadOutcomes : upload_file(outcome)
  \/ \E endpoint \in {"generate-sql", "predict"} : \E sid \in SessionIds :
       \E preference \in Preferences : GenerateSql(endpoint, sid, preference)
  \/ \E kind \in OutcomeKinds : \E sql \in Statements :
       GenerateSqlResume(kind, IF kind = "ok" THEN sql ELSE NoSql)
  \/ \E sid \in SessionIds : \E sql \in CallerStatements : execute_sql(sid, sql)
  \/ \E sid \in SessionIds : get_schema(sid)
  \/ \E sid \in SessionIds : delete_session(sid)

Spec == Init /\ [][Next]_vars

----------------------------------------------------------------------------
(* SpecInline: the application of backend/main.py *)

InitInline ==
  /\ api_keys \in SUBSET ProviderNames
  /\ multi_is_error \in BOOLEAN
  /\ providers = <<>>
  /\ llm_call = IdleCall
  /\ ValidatorIdle /\ StoreEmpty /\ RequestIdle /\ ProviderIdle

\* POST /upload: SessionManager.create_session
InlineUpload(outcome) ==
  /\ outcome = "ok" => next_id <= MaxSessions
  /\ LET created == create_session(outcome, next_id, user_db_map, db_files, db_tables)
     IN /\ user_db_map' = created.db_map
        /\ db_files' = created.files
        /\ db_tables' = created.tables
        /\ leftover' = Leftover(created)
        /\ IF created.raised
           THEN /\ response' = Response("upload", 0, 400, NoSql, <<>>,
                                        "upload failed", <<>>)
                /\ UNCHANGED next_id
           ELSE /\ response' = Response("upload", next_id, 200, NoSql, <<>>,
                                        "none", <<>>)
                /\ next_id' = next_id + 1
  /\ validated' = NoValidation
  /\ executed' = NoExec
  /\ generated' = NoGeneration
  /\ query_result' = NoQuery
  /\ conn' = "none"
  /\ UNCHANGED <<sessions, session_db_map, request, multi_is_error, lvars, vvars, pvars>>

\* POST /generate-sql up to the first provider call: get_db_info,
\* extract_enhanced_schema (connect creates a missing file),
\* generate_with_fallback
InlineGenerateSql(sid, preference) ==
  /\ request.state = "idle"
  /\ IF sid \notin user_db_map
     THEN /\ Apply(Outcome(Response("generate-sql", sid, 404, NoSql, <<>>,
                                    "No database found for this session", <<>>),
                           NoValidation, NoExec, db_files, db_tables))
          /\ UNCHANGED <<request, llm_call>>
     ELSE LET call == LLMBegin("LLMProviders",
                               inline_providers(api_keys, preference), preference)
              connected == db_files \cup {sid}
          IN /\ llm_call' = (IF call.pc = "done" THEN IdleCall ELSE call)
             /\ IF call.pc = "done"
                THEN /\ Apply(InlineFinishGenerate(sid, call.result, connected,
                                                   db_tables, multi_is_error))
                     /\ UNCHANGED request
                ELSE /\ Apply(Outcome(NoResponse, NoValidation, NoExec,
                                      connected, db_tables))
                     /\ request' = [state |-> "awaiting", endpoint |-> "generate-sql",
                                    session_id |-> sid]
  /\ UNCHANGED <<sessions, session_db_map, user_db_map, next_id, multi_is_error,
                 providers, api_keys, vvars, pvars>>

\* the awaited provider returns or raises; the handler runs on to its next
\* await or to its response
InlineGenerateSqlResume(kind, sql) ==
  /\ request.state = "awaiting"
  /\ LET call == LLMStep(llm_call, kind, sql)
     IN /\ llm_call' = (IF call.pc = "done" THEN IdleCall ELSE call)
        /\ IF call.pc = "done"
           THEN /\ Apply(InlineFinishGenerate(request.session_id, call.result,
                                              db_files, db_tables, multi_is_error))
                /\ request' = NoRequest
           ELSE /\ Apply(Outcome(NoResponse, NoValidation, NoExec, db_files, db_tables))
                /\ UNCHANGED request
  /\ UNCHANGED <<sessions, session_db_map, user_db_map, next_id, multi_is_error,
                 providers, api_keys, vvars, pvars>>

\* GET /schemas/{session_id}
InlineGetSchema(sid) ==
  /\ IF sid \notin user_db_map
     THEN Apply(Outcome(Response("schemas", sid, 404, NoSql, <<>>,
                                 "No database found for this session", <<>>),
                        NoValidation, NoExec, db_files, db_tables))
     ELSE Apply(Outcome(Response("schemas", sid, 200, NoSql, <<>>, "none", <<>>),
                        NoValidation, NoExec, db_files \cup {sid}, db_tables))
  /\ UNCHANGED <<sessions, session_db_map, user_db_map, next_id, request,
                 multi_is_error, lvars, vvars, pvars>>

NextInline ==
  \/ \E outcome \in UploadOutcomes : InlineUpload(outcome)
  \/ \E sid \in SessionIds : \E preference \in Preferences :
       InlineGenerateSql(sid, preference)
  \/ \E kind \in OutcomeKinds : \E sql \in Statements :
       InlineGenerateSqlResume(kind, IF kind = "ok" THEN sql ELSE NoSql)
  \/ \E sid \in SessionIds : InlineGetSchema(sid)

SpecInline == InitInline /\ [][NextInline]_vars

----------------------------------------------------------------------------
(* SpecProvider: one call of a provider client on every HTTP outcome *)

InitProvider ==
  /\ provider_call \in
       {[pc |-> "called", name |-> n, has_key |-> k, http |-> h,
         outcome |-> Raised("none")] :
          n \in ProviderNames, k \in BOOLEAN, h \in HttpOutcomes}
  /\ multi_is_error = TRUE
  /\ ValidatorIdle /\ ManagerIdle /\ StoreEmpty /\ RequestIdle

\* await provider.generate_sql(prompt), from the call to what comes back
ProviderGenerateSql ==
  /\ provider_call.pc = "called"
  /\ LET outcome == provider_generate_sql(provider_call.name, provider_call.has_key,
                                          provider_call.http)
     IN provider_call' =
          [provider_call EXCEPT
             !.pc = (IF outcome.exception = "none" THEN "returned" ELSE "raised"),
             !.outcome = outcome]
  /\ UNCHANGED <<vvars, lvars, svars, rvars>>

NextProvider == ProviderGenerateSql

SpecProvider == InitProvider /\ [][NextProvider]_vars

----------------------------------------------------------------------------
(* SpecStore: DatabaseManager called directly, and src/main.py *)

\* the statements handed to execute_query
StoreStatements == CallerStatements

InitStore ==
  /\ multi_is_error \in BOOLEAN
  /\ ValidatorIdle /\ ManagerIdle /\ StoreEmpty /\ RequestIdle /\ ProviderIdle

\* database_manager.create_database_from_file(temp_file_path, original_filename)
CreateDatabase(outcome) ==
  /\ outcome = "ok" => next_id <= MaxSessions
  /\ LET created == create_database_from_file(outcome, next_id, session_db_map,
                                               db_files, db_tables)
     IN /\ session_db_map' = created.db_map
        /\ db_files' = created.files
        /\ db_tables' = created.tables
        /\ leftover' = (IF created.db_left THEN {"db"} ELSE {})
        /\ response' = Response("create_database_from_file",
                                IF created.raised THEN 0 ELSE next_id, 0, NoSql,
                                <<>>, IF created.raised THEN outcome ELSE "none", <<>>)
        /\ next_id' = (IF created.raised THEN next_id ELSE next_id + 1)
  /\ validated' = NoValidation
  /\ executed' = NoExec
  /\ generated' = NoGeneration
  /\ query_result' = NoQuery
  /\ conn' = "none"
  /\ UNCHANGED <<sessions, user_db_map, request, multi_is_error, lvars, vvars, pvars>>

\* database_manager.execute_query(session_id, sql_query)
ExecuteQuery(sid, sql) ==
  /\ LET r == execute_query(sid, sql, session_db_map, db_files, db_tables,
                            multi_is_error)
     IN Apply(WithQuery(
                Outcome(Response("execute_query", sid, 0, sql, <<>>, r.error, r.results),
                        NoValidation, r.executed, r.files, r.tables),
                r))
  /\ UNCHANGED <<sessions, session_db_map, user_db_map, next_id, request,
                 multi_is_error, lvars, vvars, pvars>>

\* database_manager.delete_database(session_id)
DeleteDatabase(sid) ==
  /\ LET d == delete_database(sid, session_db_map, db_files, db_tables)
     IN /\ session_db_map' = d.db_map
        /\ Apply(Outcome(Response("delete_database", sid, 0, NoSql, <<>>, "none", <<>>),
                         NoValidation, NoExec, d.files, d.tables))
  /\ UNCHANGED <<sessions, user_db_map, next_id, request, multi_is_error,
                 lvars, vvars, pvars>>

\* POST /generate-sql of src/main.py
LegacyGenerateSql(http_ok) ==
  /\ Apply(legacy_generate_sql(http_ok, db_files, db_tables))
  /\ UNCHANGED <<sessions, session_db_map, user_db_map, next_id, request,
                 multi_is_error, lvars, vvars, pvars>>

NextStore ==
  \/ \E outcome \in UploadOutcomes : CreateDatabase(outcome)
  \/ \E sid \in SessionIds : \E sql \in StoreStatements : ExecuteQuery(sid, sql)
  \/ \E sid \in SessionIds : DeleteDatabase(sid)
  \/ \E http_ok \in BOOLEAN : LegacyGenerateSql(http_ok)

SpecStore == InitStore /\ [][NextStore]_vars

----------------------------------------------------------------------------
(* Properties of the validator (SpecValidator) *)

\* the text holds one of the eleven denylisted keywords, in any case
ContainsDenylisted(s) ==
  \E i \in 1..Len(dangerous_keywords) :
     Contains(KeywordChars(dangerous_keywords[i]), upper(Text(s)))

\* the text begins with SELECT, in any case
BeginsWithSelect(s) == startswith(upper(Text(s)), SELECT)

\* the input holds a second statement after a semicolon
SeveralStatements(s) == Len(LexStatements(Lexemes(s))) > 1

\* C3: a string that contains a denylisted keyword and does not begin with
\* SELECT is marked invalid by validate_sql and is rejected by the inline
\* check of backend/main.py before cursor.execute
C3_DenylistedNonSelectRejected ==
  (vpc \in {"validated", "inline"}
     /\ ContainsDenylisted(sql_query) /\ ~BeginsWithSelect(sql_query))
  => ~validation_result.valid

C6_SelectValidAndFormatEquivalent ==
  (vpc = "validated" /\ BeginsWithSelect(sql_query) /\ ~ContainsDenylisted(sql_query))
  => /\ validation_result.valid
     /\ sqlparse_parse(validation_result.formatted) # <<>>
     /\ LexStatements(Lexemes(validation_result.formatted))
          = LexStatements(Lexemes(sql_query))

C6_Witness ==
  /\ vpc = "validated"
  /\ BeginsWithSelect(sql_query)
  /\ ~ContainsDenylisted(sql_query)
  /\ validation_result.valid
  /\ validation_result.formatted # sql_query
  /\ Len(Lexemes(sql_query)) > 1

----------------------------------------------------------------------------
(* Properties of the provider fallback (SpecLLM) *)

\* the providers a call can use: the registered ones for LLMManager, the
\* ones with an API key for generate_with_fallback
Configured(call) ==
  IF call.fn = "LLMManager" THEN Range(providers)
  ELSE api_keys \cap {"openai", "deepinfra"}

CalledNames(call) == {call.called[i].name : i \in DOMAIN call.called}

\* C7: with a preference that names a configured provider, no other
\* provider is called, also when the preferred one fails
C7_OnlyPreferredCalled ==
  (llm_call.pc \in {"await", "done"} /\ llm_call.preference \in Configured(llm_call))
  => /\ CalledNames(llm_call) \subseteq {llm_call.preference}
     /\ Len(llm_call.called) <= 1
     /\ llm_call.pc = "done" => Len(llm_call.called) = 1

C7_Witness ==
  /\ llm_call.pc = "done"
  /\ llm_call.preference \in Configured(llm_call)
  /\ Cardinality(Configured(llm_call)) >= 2
  /\ llm_call.called = <<[name |-> llm_call.preference, kind |-> "fail"]>>
  /\ ~llm_call.result.success

\* the configured providers in the order openai, deepinfra, anthropic
FixedOrder(configured) ==
  SelectSeq(<<"openai", "deepinfra", "anthropic">>, LAMBDA n : n \in configured)

\* C8: in auto mode LLMManager.generate_sql returns the result of the first
\* provider whose call succeeds, walking the configured providers in the
\* order openai, deepinfra, anthropic whatever the registration order, and
\* calls no provider after that success
C8_AutoFirstSuccessInFixedOrder ==
  (llm_call.fn = "LLMManager" /\ llm_call.preference = "auto"
     /\ llm_call.pc = "done" /\ llm_call.result.success)
  => LET order == FixedOrder(Range(providers))
         n == Len(llm_call.called)
     IN /\ n >= 1 /\ n <= Len(order)
        /\ \A i \in 1..n : llm_call.called[i].name = order[i]
        /\ \A i \in 1..(n - 1) : llm_call.called[i].kind # "ok"
        /\ llm_call.called[n].kind = "ok"
        /\ llm_call.result.provider = order[n]

C8_Witness ==
  /\ llm_call.fn = "LLMManager" /\ llm_call.preference = "auto"
  /\ llm_call.pc = "done" /\ llm_call.result.success
  /\ Len(llm_call.called) = 2
  /\ providers = <<"anthropic", "deepinfra", "openai">>
  /\ llm_call.result.provider = "deepinfra"

\* C9: no exception leaves generate_sql; in auto mode, when a candidate
\* returns a failed result or raises and the next one succeeds, the result
\* is the one of the provider that succeeded
C9_FailuresAbsorbed ==
  /\ llm_call.pc # "raised"
  /\ (llm_call.pc = "done" /\ llm_call.preference = "auto"
        /\ Len(llm_call.called) >= 2
        /\ llm_call.called[Len(llm_call.called)].kind = "ok")
     => LET last == llm_call.called[Len(llm_call.called)]
        IN /\ llm_call.result.success
           /\ llm_call.result.model = ProviderModel(last.name)
           /\ llm_call.fn = "LLMManager" => llm_call.result.provider = last.name

C9_Witness ==
  /\ llm_call.pc = "done" /\ llm_call.preference = "auto"
  /\ Len(llm_call.called) = 2
  /\ llm_call.called[1].kind = "raise"
  /\ llm_call.called[2].kind = "ok"
  /\ llm_call.result.success

\* the candidate list was not empty and every candidate failed
AllCandidatesFailed(call) ==
  /\ call.pc = "done"
  /\ call.candidates # <<>>
  /\ \A i \in DOMAIN call.called : call.called[i].kind # "ok"

\* C10 as stated: when every candidate fails the result is a failed one
\* whose error is "All LLM providers failed"
C10_AllFailedErrorText ==
  AllCandidatesFailed(llm_call)
  => /\ ~llm_call.result.success
     /\ llm_call.result.error = "All LLM providers failed"

\* C10 amended: when every candidate fails the result is a failed one; its
\* error is "All LLM providers failed to generate SQL." from
\* LLMManager.generate_sql and "All LLM providers failed" from
\* generate_with_fallback
C10_AllFailedErrorPerManager ==
  AllCandidatesFailed(llm_call)
  => /\ ~llm_call.result.success
     /\ Len(llm_call.called) = Len(llm_call.candidates)
     /\ llm_call.result.error =
          (IF llm_call.fn = "LLMManager"
           THEN "All LLM providers failed to generate SQL."
           ELSE "All LLM providers failed")

C10_Witness ==
  /\ AllCandidatesFailed(llm_call)
  /\ llm_call.fn = "LLMManager"
  /\ Len(llm_call.called) = 3
  /\ llm_call.result.error = "All LLM providers failed to generate SQL."

----------------------------------------------------------------------------
(* Properties of the request handlers (Spec, SpecInline) *)

\* C1: in generate-sql, predict and execute-sql of backend/1main.py the
\* statement passed to execute_query is one that validate_sql was called on
\* in the same request and marked valid
C1_ExecutedOnlyIfValidated ==
  executed.done
  => /\ validated = Validation(executed.sql, TRUE)
     /\ validate_sql(executed.sql).valid

C1_Witness ==
  /\ executed.done
  /\ response.endpoint = "predict"
  /\ response.error = "none"
  /\ Len(response.results) > 0

\* C2: the tables of a session's store are the ones it was created with,
\* whatever generate-sql, execute-sql and schema requests were served
C2_StoreUnchanged ==
  \A sid \in sessions \cup user_db_map :
     sid \in db_files /\ db_tables[sid] = UploadedTables

\* C11: with no configured provider, generate_sql and generate_with_fallback
\* return a failed result at once, whatever the preference, and call no
\* provider
C11_NoProvidersFailsAtOnce ==
  (llm_call.fn # "none" /\ Configured(llm_call) = {})
  => /\ llm_call.pc = "done"
     /\ llm_call.called = <<>>
     /\ ~llm_call.result.success
     /\ llm_call.result.sql = NoSql
     /\ llm_call.result.error \in
          {"No LLM providers configured or available for the given preference.",
           "No LLM providers configured"}

C11_Witness ==
  /\ llm_call.fn = "LLMManager"
  /\ providers = <<>>
  /\ llm_call.preference = "openai"
  /\ llm_call.pc = "done"
  /\ ~llm_call.result.success

\* the calls made so far are the first candidates, each one once
CalledOnceEach(call) ==
  /\ Len(call.called) <= Len(call.candidates)
  /\ \A i \in DOMAIN call.called : call.called[i].name = call.candidates[i]
  /\ \A i, j \in DOMAIN call.called :
        call.called[i].name = call.called[j].name => i = j
  /\ Len(call.called) <= Cardinality(Configured(call))

\* C12: within one generate_sql call every candidate is called at most once,
\* so there are at most as many provider calls as configured providers, and
\* when every provider call returns the call ends with a result
C12_TryOnceEachAndTerminate ==
  /\ [](llm_call.pc \in {"await", "done"} => CalledOnceEach(llm_call))
  /\ ((llm_call.pc = "await") ~> (llm_call.pc = "done"))

C12_Witness ==
  /\ llm_call.pc = "done"
  /\ Len(llm_call.called) = 3
  /\ llm_call.called[2].kind = "fail"
  /\ llm_call.called[3].kind = "ok"

\* C13: a result returned with success=true carries a non-empty SQL string
C13_SuccessCarriesSql ==
  (llm_call.pc = "done" /\ llm_call.result.success)
  => llm_call.result.sql # NoSql

----------------------------------------------------------------------------
(* Properties of the store (SpecStore) *)

\* C14: execute_query propagates no error: a failure while the statement
\* runs, and an unknown session id, give a dict with success=false and an
\* error message
C14_ExecuteQueryNeverRaises ==
  query_result.called
  => /\ ~query_result.raised
     /\ query_result.success \/ query_result.error # "none"

\* C15: no request ends with the connection it opened to run a statement
\* still open, whether the statement ran, the engine raised or the statement
\* was rejected after the connection was opened
C15_ConnectionClosed == conn # "open"

C15_Witness ==
  /\ conn = "closed"
  /\ response.endpoint = "generate-sql"
  /\ response.error = "Query contains potentially dangerous operations"
  /\ ~executed.done

----------------------------------------------------------------------------
(* Properties of uploads, sessions and deletion (Spec) *)

\* C17: when an upload fails the error is reported, no session map gets an
\* entry and no file of the failed upload is left on disk, neither a
\* database file nor the temporary copy of the upload
C17_FailedUploadLeavesNothing ==
  (response.endpoint = "upload" /\ response.status # 200)
  => /\ response.status = 400
     /\ response.session_id \notin sessions \cup session_db_map \cup user_db_map
     /\ leftover = {}

\* the endpoints of backend/1main.py that take a session id
SessionEndpoints == {"generate-sql", "predict", "schema", "execute-sql", "delete"}

\* C18: a request for a session id that is not in the session map is
\* answered with a 4xx status (the 404 of get_session; 400 from the schema
\* endpoint, which wraps it); no schema is extracted, no provider is called
\* and no statement is executed
C18_UnknownSessionRefused ==
  [][\A sid \in SessionIds :
       (/\ request' = request
        /\ response'.endpoint \in SessionEndpoints
        /\ response'.session_id = sid
        /\ sid \notin sessions)
       => /\ response'.status = (IF response'.endpoint = "schema" THEN 400 ELSE 404)
          /\ llm_call' = llm_call
          /\ ~generated'.done
          /\ ~query_result'.called
          /\ ~executed'.done
          /\ conn' = "none"
          /\ db_files' = db_files /\ db_tables' = db_tables
          /\ sessions' = sessions /\ session_db_map' = session_db_map]_vars

C18_Witness ==
  /\ response.endpoint = "predict"
  /\ response.status = 404
  /\ response.session_id \notin sessions
  /\ response.session_id \in session_db_map

\* C19: after a successful delete_session(id) the backing file of id does
\* not exist and neither session_manager.sessions nor
\* database_manager.session_db_map holds id
C19_DeletedEverywhere ==
  (response.endpoint = "delete" /\ response.status = 200)
  => /\ response.session_id \notin db_files
     /\ response.session_id \notin sessions
     /\ response.session_id \notin session_db_map

\* C20: when SQL generation returns a failed result the response carries
\* an empty sql and the error of the fallback, and the request calls
\* neither the validator nor the executor
C20_FailedGenerationStops ==
  (generated.done /\ ~generated.success)
  => /\ response.endpoint \in {"generate-sql", "predict"}
     /\ response.sql = NoSql
     /\ response.results = <<>>
     /\ response.error = generated.error
     /\ response.error \in {NoProvidersError("LLMManager"), AllFailedError("LLMManager"),
                            NoProvidersError("LLMProviders"), AllFailedError("LLMProviders")}
     /\ validated = NoValidation
     /\ executed = NoExec
     /\ ~query_result.called
     /\ conn = "none"

C20_Witness ==
  /\ generated.done /\ ~generated.success
  /\ providers = <<>>
  /\ response.endpoint = "generate-sql"
  /\ response.session_id \in sessions
  /\ response.error = "No LLM providers configured or available for the given preference."

----------------------------------------------------------------------------
(* Properties of the request handlers, continued (Spec, SpecInline) *)

\* C21: the statement handed to execute_query is the very string that was
\* validated, the cleaned SQL of the provider or the raw statement of the
\* execute-sql caller; the formatted text of the validator is only returned
C21_ExecutedIsValidatedText ==
  executed.done
  => /\ validated.done
     /\ executed.sql = validated.sql
     /\ generated.done => executed.sql = generated.sql
     /\ (response.endpoint = "execute-sql" /\ response.status = 200)
        => /\ executed.sql = response.sql
           /\ response.formatted = validate_sql(executed.sql).formatted

C21_Witness ==
  /\ executed.done
  /\ response.endpoint = "execute-sql"
  /\ response.status = 200
  /\ response.formatted # executed.sql
  /\ Len(response.results) = 2

----------------------------------------------------------------------------
(* C22 *)

\* C22: a provider client's generate_sql never raises: without a key, on a
\* status other than 200, on a transport error and on a body without a text
\* payload it returns success = false with an error text, and it returns
\* success = true only for a 2xx answer whose body held a text payload, the
\* sql being that payload cleaned
C22_ProviderNeverRaises ==
  LET c == provider_call
      r == c.outcome.result
      two_xx == c.http.kind = "response" /\ c.http.status \in 200..299
      non_two_xx == c.http.kind = "response" /\ c.http.status \notin 200..299
      transport == c.http.kind \in {"client_error", "timeout"}
      malformed == c.http.kind = "response" /\ c.http.body.kind # "payload"
  IN /\ c.pc # "raised"
     /\ c.pc = "returned"
        => /\ c.outcome.exception = "none"
           /\ (~c.has_key \/ non_two_xx \/ transport \/ malformed)
              => /\ ~r.success
                 /\ r.sql = NoSql
                 /\ r.provider = "none"
           /\ (c.has_key /\ non_two_xx)
              => r.error = <<ProviderLabel(c.name), " API error: ">> \o BodyText(c.http.body)
           /\ (c.has_key /\ c.http.kind = "client_error")
              => r.error = <<ProviderLabel(c.name), " network error: ", "aiohttp.ClientError">>
           /\ (c.has_key /\ c.http.kind = "timeout") => r.error = <<>>
           /\ (c.has_key /\ two_xx /\ malformed /\ c.http.status = 200)
              => r.error \in {<<"KeyError">>, <<"AttributeError">>,
                              <<"json.JSONDecodeError">>,
                              <<ProviderLabel(c.name), " network error: ",
                                "aiohttp.ContentTypeError">>}
           /\ r.success
              => /\ c.has_key /\ two_xx
                 /\ c.http.body.kind = "payload"
                 /\ r.sql = clean_sql(c.http.body.content)
                 /\ r.provider = c.name

\* a keyed call answered 200 with JSON that lacks the expected keys has come
\* back as a failed result
C22_Witness ==
  /\ provider_call.pc = "returned"
  /\ provider_call.has_key
  /\ provider_call.http.kind = "response"
  /\ provider_call.http.status = 200
  /\ provider_call.http.body.kind = "missing key"
  /\ ~provider_call.outcome.result.success
  /\ provider_call.outcome.result.error = <<"KeyError">>

----------------------------------------------------------------------------
(* C23 *)

\* C23: when the preference names a provider that is not configured while
\* others are, the preference is ignored: the candidates are those of auto
\* mode, and the configured providers are called in the fixed fallback
\* order, one after the other until one succeeds
C23_UnconfiguredPreferenceIsAuto ==
  (llm_call.pc \in {"await", "done"}
     /\ llm_call.preference # "auto"
     /\ llm_call.preference \notin Configured(llm_call)
     /\ Configured(llm_call) # {})
  => LET order == FixedOrder(Configured(llm_call))
         n == Len(llm_call.called)
     IN /\ llm_call.candidates = order
        /\ llm_call.candidates =
             (IF llm_call.fn = "LLMManager"
              THEN candidate_providers(providers, "auto")
              ELSE inline_providers(api_keys, "auto"))
        /\ n <= Len(order)
        /\ \A i \in 1..n : llm_call.called[i].name = order[i]
        /\ \A i \in 1..(n - 1) : llm_call.called[i].kind # "ok"
        /\ llm_call.pc = "await" => n < Len(order)
        /\ llm_call.pc = "done" => n >= 1 /\ (llm_call.result.success \/ n = Len(order))

C23_Witness ==
  /\ llm_call.fn = "LLMProviders"
  /\ llm_call.preference = "openai"
  /\ api_keys = {"deepinfra", "anthropic"}
  /\ llm_call.pc = "done"
  /\ llm_call.called = <<[name |-> "deepinfra", kind |-> "ok"]>>
  /\ llm_call.result.success

----------------------------------------------------------------------------
(* C24 *)

\* the sessions that DELETE /session/{id} has removed: ids are issued in
\* order and only delete_session takes one out of session_manager.sessions
Deleted == {sid \in SessionIds : sid < next_id /\ sid \notin sessions}

\* C24: when DELETE /session/{id} is served while a generate-sql request for
\* id is suspended at its provider call, the resumed request executes no
\* statement for id and does not recreate the backing file: after
\* delete_session has completed, no later state has a file for id
C24_DeleteWinsOverInFlight ==
  [][\A sid \in Deleted :
       /\ sid \notin db_files'
       /\ ~(executed'.done /\ executed'.session_id = sid)
       /\ sid \in Deleted']_vars

----------------------------------------------------------------------------
(* C25 *)

\* C25: after uploads and deletions session_manager.sessions and
\* database_manager.session_db_map hold the same ids, and every id they hold
\* has its backing file
C25_SessionMapsAgree ==
  (response.endpoint \in {"upload", "delete"} /\ request.state = "idle")
  => /\ sessions = session_db_map
     /\ \A sid \in sessions \cup session_db_map : sid \in db_files

----------------------------------------------------------------------------
(* C26 *)

\* the whitespace lexemes
LeadingWhitespace == {<<" ">>, <<"\n\n">>, <<" ", " ">>}

\* C26: validate_sql gives a statement and the same statement with
\* whitespace put in front of it the same verdict
C26_LeadingWhitespaceIrrelevant ==
  vpc = "validated"
  => \A ws \in LeadingWhitespace :
        validate_sql(ws \o sql_query).valid = validation_result.valid

----------------------------------------------------------------------------
(* C27 *)

\* C27: in auto mode LLMManager.generate_sql returns its all-providers-failed
\* result only after every provider of self.providers has been called, once
\* each, and none of the calls succeeded: no registered provider is skipped
C27_AllFailedAfterEveryProvider ==
  (/\ llm_call.fn = "LLMManager"
   /\ llm_call.preference = "auto"
   /\ llm_call.pc = "done"
   /\ llm_call.result.error = AllFailedError("LLMManager"))
  => /\ CalledNames(llm_call) = Range(providers)
     /\ Len(llm_call.called) = Cardinality(Range(providers))
     /\ \A i \in DOMAIN llm_call.called : llm_call.called[i].kind \in {"fail", "raise"}
     /\ ~llm_call.result.success

C27_Witness ==
  /\ llm_call.fn = "LLMManager"
  /\ llm_call.preference = "auto"
  /\ llm_call.pc = "done"
  /\ llm_call.result.error = AllFailedError("LLMManager")
  /\ providers = <<"anthropic", "openai", "deepinfra">>
  /\ llm_call.called = <<[name |-> "openai", kind |-> "fail"],
                         [name |-> "deepinfra", kind |-> "raise"],
                         [name |-> "anthropic", kind |-> "fail"]>>

----------------------------------------------------------------------------
(* C28 *)

\* C28: on a successful execute_query row_count is the number of rows the
\* cursor returned, and every row mapping has exactly one entry per column
\* of the cursor, also when two columns carry the same name
C28_OneEntryPerColumn ==
  (query_result.called /\ ~query_result.raised /\ query_result.success)
  => /\ query_result.row_count = Len(query_result.results)
     /\ \A i \in DOMAIN query_result.results :
           Cardinality(DOMAIN query_result.results[i]) = Len(query_result.columns)

----------------------------------------------------------------------------
(* C29 *)

\* C29: a generate-sql response with an error carries no results; a response
\* carries results only when the provider succeeded, then the validator
\* accepted the SQL, then the executor succeeded: the validator runs only
\* on generated SQL and the executor only on validated SQL
C29_ResultsOnlyAfterAllThree ==
  response.endpoint = "generate-sql"
  => /\ response.error # "none" => response.results = <<>>
     /\ validated.done => generated.done /\ generated.success
                          /\ validated.sql = generated.sql
     /\ executed.done => validated.done /\ validated.valid
                         /\ executed.sql = validated.sql
     /\ query_result.called => validated.done /\ validated.valid
     /\ response.results # <<>>
        => /\ response.error = "none"
           /\ generated.done /\ generated.success
           /\ validated.done /\ validated.valid
           /\ executed.done
           /\ query_result.called /\ query_result.success /\ ~query_result.raised
           /\ response.results = query_result.results

C29_Witness ==
  /\ response.endpoint = "generate-sql"
  /\ response.status = 200
  /\ response.error = "none"
  /\ Len(response.results) = 2
  /\ generated.success /\ validated.valid /\ query_result.success

\* the same for backend/main.py (SpecInline), whose validator is the inline
\* keyword check and whose executor is cursor.execute in the handler
C29_InlineResultsOnlyAfterAllThree ==
  response.endpoint = "generate-sql"
  => /\ response.error # "none" => response.results = <<>>
     /\ validated.done => generated.done /\ generated.success
     /\ executed.done => validated.done /\ validated.valid
     /\ response.results # <<>>
        => /\ response.error = "none"
           /\ generated.success /\ validated.valid /\ executed.done

====
